---- MODULE Spec2Model ----
(***************************************************************************)
(* Token-classification evaluator (evaluate/evaluator/                     *)
(* token_classification.py): the word-offset reconstruction                *)
(* (words_to_offsets), the word/sub-token label aligner                    *)
(* (predictions_processor) and the cached evaluation (compute).            *)
(*                                                                         *)
(* A string is a sequence of one-character strings, so that len() is Len   *)
(* and str.join is concatenation.  Python indexes from 0 and TLA+ from 1:  *)
(* prediction[token_index] is prediction[token_index + 1] here, and a word *)
(* offset tuple (start, end) is <<start, end>>, word_offset[0] being       *)
(* word_offset[1] here.                                                    *)
(***************************************************************************)
EXTENDS Integers, Sequences, FiniteSets, TLC

\* ------------------------------------------------------------ bounds
MaxWords == 2
MaxWordLen == 2
MaxJoinLen == 1
MaxPreds == 2
MaxStart == 1

\* ------------------------------------------------------------ input sets
SeqsUpTo(S, n) == UNION {[1..m -> S] : m \in 0..n}

\* characters of the words and of the separator handed to words_to_offsets
Alphabet == {"a", "b"}
JoinAlphabet == {" "}
OffsetWordLists == SeqsUpTo(SeqsUpTo(Alphabet, MaxWordLen), MaxWords)
OffsetJoinBys == SeqsUpTo(JoinAlphabet, MaxJoinLen)

\* the aligner reads only the lengths of its words: an empty and a one-letter word
Vocabulary == {<<>>, <<"a">>}
\* join_by: " " is the default of compute, "" is for languages written without spaces
JoinBys == {<<>>, <<" ">>}
\* a call of predictions_processor holds examples 0 and 1 at most
Examples == {0, 1}
Entities == {"B-LOC", "O"}
SubTokens == [start : 0..MaxStart, entity : Entities]
PredictionLists == SeqsUpTo(SubTokens, MaxPreds)
WordLists == SeqsUpTo(Vocabulary, MaxWords)
WordBatches == SeqsUpTo(WordLists, Cardinality(Examples))

VARIABLES
    \* words_to_offsets called on its own: arguments, position, returned offsets
    w_words, w_join_by, w_pc, w_offsets,
    \* predictions_processor
    words, join_by, pc, i, prediction, words_offsets, k, token_index,
    pred_processed, preds, retval, exc,
    \* compute: arguments, position, locals, outcome, and what it acts on
    model_or_pipeline, data, metric, cache_if_possible, c_pc, canary_hash,
    cache_file_name, perf_results, result, c_ret, c_exc, cache_dir, pipe_log,
    aligner_runs, metric_runs

offsetVars == <<w_words, w_join_by, w_pc, w_offsets>>
alignVars == <<words, join_by, pc, i, prediction, words_offsets, k, token_index,
               pred_processed, preds, retval, exc>>
computeVars == <<model_or_pipeline, data, metric, cache_if_possible, c_pc, canary_hash,
                 cache_file_name, perf_results, result, c_ret, c_exc, cache_dir,
                 pipe_log, aligner_runs, metric_runs>>
nonAlignVars == <<offsetVars, computeVars>>
vars == <<offsetVars, alignVars, computeVars>>

\* ------------------------------------------------------------ words_to_offsets
WordEndOffByOne(start, word) == start + Len(word)

\* line 162: end = start + len(word) - 1
WordEnd(start, word) == start + Len(word) - 1

NextStartNoPlusOne(end, sep) == end + Len(sep)

\* line 164: start = end + len(join_by) + 1
NextStart(end, sep) == end + Len(sep) + 1

RECURSIVE OffsetsFrom(_, _, _)
\* lines 161-164, the loop from the word list ws on, with the running cursor start
OffsetsFrom(ws, sep, start) ==
    IF ws = <<>> THEN <<>>
    ELSE LET end == WordEnd(start, Head(ws))
         IN <<(<<start, end>>)>> \o OffsetsFrom(Tail(ws), sep, NextStart(end, sep))

\* lines 158-166
words_to_offsets(ws, sep) == OffsetsFrom(ws, sep, 0)

RECURSIVE Join(_, _)
\* line 195: join_by.join(x[input_column])
Join(ws, sep) ==
    IF ws = <<>> THEN <<>>
    ELSE IF Len(ws) = 1 THEN ws[1]
    ELSE ws[1] \o sep \o Join(Tail(ws), sep)

\* ------------------------------------------------------------ predictions_processor
\* The arguments words and join_by are fixed when the call starts.  The argument
\* predictions is read one example at a time by the for loop of line 126, and the
\* loop variable prediction holds the example being processed; the examples the
\* loop has not reached yet are drawn when it reaches them.
\*
\* pc is the line the call is at:
\*   "line126"  for i, prediction in enumerate(predictions)
\*   "line133"  for word_offset in words_offsets
\*   "line135"  the test of the while loop
\*   "line138"  the if/elif
\*   "returned" after line 145, "raised" after an exception left the call
\* k is the number of word offsets the loop of line 133 has taken, so that
\* word_offset is words_offsets[k].
\* retval holds the returned value (none or one), exc the exception that left
\* the call (none or one).

word_offset == words_offsets[k]

\* Python's IndexError("list index out of range"), raised by the subscript at
\* `line`; it names no example
IndexError(line) == [type |-> "IndexError", line |-> line, identifies |-> {}]

StartsBeforeOrAt(tok, off) == tok.start <= off[1]

\* line 135: prediction[token_index]["start"] < word_offset[0]
StartsBefore(tok, off) == tok.start < off[1]

\* line 138: prediction[token_index]["start"] > word_offset[0]
StartsAfter(tok, off) == tok.start > off[1]

\* line 140: prediction[token_index]["start"] == word_offset[0]
StartsAt(tok, off) == tok.start = off[1]

\* whether prediction[token_index] is a valid subscript (token_index is never negative)
InRange == token_index < Len(prediction)

LabelOfFirstTokenAlways(tok, off) == <<tok.entity>>

LabelOfNoFallback(tok, off) == IF StartsAt(tok, off) THEN <<tok.entity>> ELSE <<>>

\* lines 138-141: what the if/elif appends to pred_processed
LabelOf(tok, off) ==
    IF StartsAfter(tok, off) THEN <<"O">>
    ELSE IF StartsAt(tok, off) THEN <<tok.entity>>
    ELSE <<>>

\* the variables of the operations a specification does not exercise
IdleOffsets ==
    /\ w_words = <<>>
    /\ w_join_by = <<>>
    /\ w_pc = "idle"
    /\ w_offsets = <<>>

IdleAlign ==
    /\ words = <<>>
    /\ join_by = <<>>
    /\ pc = "idle"
    /\ i = -1
    /\ prediction = <<>>
    /\ words_offsets = <<>>
    /\ k = 0
    /\ token_index = 0
    /\ pred_processed = <<>>
    /\ preds = <<>>
    /\ retval = <<>>
    /\ exc = <<>>

IdleCompute ==
    /\ model_or_pipeline = "none"
    /\ data = "none"
    /\ metric = "none"
    /\ cache_if_possible = FALSE
    /\ c_pc = "idle"
    /\ canary_hash = ""
    /\ cache_file_name = <<>>
    /\ perf_results = {}
    /\ result = {}
    /\ c_ret = <<>>
    /\ c_exc = <<>>
    /\ cache_dir = [n \in {} |-> {}]
    /\ pipe_log = <<>>
    /\ aligner_runs = 0
    /\ metric_runs = 0

InitAlign ==
    /\ words \in WordBatches
    /\ join_by \in JoinBys
    /\ pc = "line126"
    /\ i = -1
    /\ prediction = <<>>
    /\ words_offsets = <<>>
    /\ k = 0
    /\ token_index = 0
    /\ pred_processed = <<>>
    /\ preds = <<>>
    /\ retval = <<>>
    /\ exc = <<>>
    /\ IdleOffsets
    /\ IdleCompute

NextExampleKeepsCursor ==
    /\ pc = "line126"
    /\ i + 1 \in Examples
    /\ \E p \in PredictionLists :
        /\ i' = i + 1
        /\ prediction' = p
        /\ IF i + 1 < Len(words)
           THEN /\ pred_processed' = <<>>
                /\ words_offsets' = words_to_offsets(words[i + 2], join_by)
                /\ k' = 0
                /\ pc' = "line133"
                /\ UNCHANGED <<token_index, exc>>
           ELSE /\ exc' = <<IndexError(130)>>
                /\ pc' = "raised"
                /\ UNCHANGED <<pred_processed, words_offsets, k, token_index>>
    /\ UNCHANGED <<words, join_by, preds, retval, nonAlignVars>>

\* lines 126-132: the loop takes the next example; words[i] of line 130 raises
\* when predictions holds more examples than words
NextExample ==
    /\ pc = "line126"
    /\ i + 1 \in Examples
    /\ \E p \in PredictionLists :
        /\ i' = i + 1
        /\ prediction' = p
        /\ IF i + 1 < Len(words)
           THEN /\ pred_processed' = <<>>
                /\ words_offsets' = words_to_offsets(words[i + 2], join_by)
                /\ token_index' = 0
                /\ k' = 0
                /\ pc' = "line133"
                /\ UNCHANGED exc
           ELSE /\ exc' = <<IndexError(130)>>
                /\ pc' = "raised"
                /\ UNCHANGED <<pred_processed, words_offsets, k, token_index>>
    /\ UNCHANGED <<words, join_by, preds, retval, nonAlignVars>>

\* lines 126, 145: predictions is exhausted and the call returns
Return ==
    /\ pc = "line126"
    /\ retval' = <<[predictions |-> preds]>>
    /\ pc' = "returned"
    /\ UNCHANGED <<words, join_by, i, prediction, words_offsets, k, token_index,
                   pred_processed, preds, exc, nonAlignVars>>

\* line 133: the loop takes the next word offset
NextWord ==
    /\ pc = "line133"
    /\ k < Len(words_offsets)
    /\ k' = k + 1
    /\ pc' = "line135"
    /\ UNCHANGED <<words, join_by, i, prediction, words_offsets, token_index,
                   pred_processed, preds, retval, exc, nonAlignVars>>

\* lines 133, 143: the word offsets are exhausted, preds.append(pred_processed)
EndExample ==
    /\ pc = "line133"
    /\ k = Len(words_offsets)
    /\ preds' = Append(preds, pred_processed)
    /\ pc' = "line126"
    /\ UNCHANGED <<words, join_by, i, prediction, words_offsets, k, token_index,
                   pred_processed, retval, exc, nonAlignVars>>

\* lines 135-136: the while test holds, token_index += 1
SkipToken ==
    /\ pc = "line135"
    /\ InRange
    /\ StartsBefore(prediction[token_index + 1], word_offset)
    /\ token_index' = token_index + 1
    /\ UNCHANGED <<words, join_by, pc, i, prediction, words_offsets, k,
                   pred_processed, preds, retval, exc, nonAlignVars>>

\* line 135: the while test fails and the loop is left
WhileExit ==
    /\ pc = "line135"
    /\ InRange
    /\ ~StartsBefore(prediction[token_index + 1], word_offset)
    /\ pc' = "line138"
    /\ UNCHANGED <<words, join_by, i, prediction, words_offsets, k, token_index,
                   pred_processed, preds, retval, exc, nonAlignVars>>

CursorOverrunTruncates ==
    /\ pc = "line135"
    /\ ~InRange
    /\ preds' = Append(preds, pred_processed)
    /\ pc' = "line126"
    /\ UNCHANGED <<words, join_by, i, prediction, words_offsets, k, token_index,
                   pred_processed, retval, exc, nonAlignVars>>

\* line 135: prediction[token_index] with token_index = len(prediction) raises
\* IndexError, which no handler of the method catches
CursorOverrun ==
    /\ pc = "line135"
    /\ ~InRange
    /\ exc' = <<IndexError(135)>>
    /\ pc' = "raised"
    /\ UNCHANGED <<words, join_by, i, prediction, words_offsets, k, token_index,
                   pred_processed, preds, retval, nonAlignVars>>

\* lines 138-141: the label of the word is appended (token_index is in range:
\* line 135 has just read prediction[token_index])
LabelWord ==
    /\ pc = "line138"
    /\ InRange
    /\ pred_processed' = pred_processed \o LabelOf(prediction[token_index + 1], word_offset)
    /\ pc' = "line133"
    /\ UNCHANGED <<words, join_by, i, prediction, words_offsets, k, token_index,
                   preds, retval, exc, nonAlignVars>>

NextAlign ==
    \/ NextExample
    \/ Return
    \/ NextWord
    \/ EndExample
    \/ SkipToken
    \/ WhileExit
    \/ CursorOverrun
    \/ LabelWord

SpecAlign == InitAlign /\ [][NextAlign]_vars

\* ------------------------------------------------------------ words_to_offsets alone
InitOffsets ==
    /\ w_words \in OffsetWordLists
    /\ w_join_by \in OffsetJoinBys
    /\ w_pc = "call"
    /\ w_offsets = <<>>
    /\ IdleAlign
    /\ IdleCompute

\* a call words_to_offsets(w_words, w_join_by) returns
CallWordsToOffsets ==
    /\ w_pc = "call"
    /\ w_offsets' = words_to_offsets(w_words, w_join_by)
    /\ w_pc' = "returned"
    /\ UNCHANGED <<w_words, w_join_by, alignVars, computeVars>>

NextOffsets == CallWordsToOffsets

SpecOffsets == InitOffsets /\ [][NextOffsets]_vars

\* ------------------------------------------------------------ compute
\* A dict is the set of its <<key, value>> items.  The pipeline, the dataset,
\* the metric and the cache directory are collaborators of compute: the model
\* keeps what compute reads of them (the canary predictions of a pipeline, the
\* fingerprint of a dataset, the hash of a metric, the files of the directory)
\* and what it does to them (pipe_log: the inputs the pipeline was invoked on
\* since the call began; aligner_runs, metric_runs: the runs of
\* predictions_processor and compute_metric since the call began).
\*
\* c_pc is the line the call is at: "line264" prepare_pipeline, "line267" the
\* test of cache_if_possible, "line277" the test of os.path.exists, "line284"
\* call_pipeline, "line285" predictions_processor, "line289" compute_metric,
\* "line303" the cache write, "returned", "raised".

\* "m2-finetuned" differs from "m2" on the data but not on the canary inputs;
\* the pipeline of "slow-tokenizer" reports no start offsets
Models == {"m1", "m2", "m2-finetuned", "slow-tokenizer"}
Datasets == {"d1", "d2"}
Metrics == {"seqeval"}
Times == {"t1", "t2"}

\* lines 219-225: the md5 of the pipeline's predictions on the canary inputs
CanaryHash(m) == IF m = "m1" THEN "md5-canary-A" ELSE "md5-canary-B"

\* lines 272-274: cache-{canary_hash}-{data._fingerprint}-{metric._hash}.parquet
CacheFileName(h, d, me) == <<h, d, me>>

\* the metric's results on the aligned predictions of model m on dataset d
MetricResults(m, d, me) == {<<"overall_f1", <<m, d, me>>>>}

\* the performance counters of one run of the pipeline
PerfResults(t) == {<<"total_time_in_seconds", <<t>>>>}

\* the single-row table write_to_cache stores: every key a column of one value
WriteTable(res) == {<<item[1], <<item[2]>>>> : item \in res}

ReadTableWholeColumn(table) == table

\* lines 279-280: {k: v[0] for (k, v) in result_from_table.items()}
ReadTable(table) == {<<col[1], col[2][1]>> : col \in table}

StoreFile(dir, name, table) ==
    [n \in DOMAIN dir \cup {name} |-> IF n = name THEN table ELSE dir[n]]

InitCompute ==
    /\ IdleOffsets
    /\ IdleAlign
    /\ IdleCompute

\* lines 257-263: a call of compute starts (result = {}, the data is loaded and
\* prepared)
ComputeCall ==
    /\ c_pc \in {"idle", "returned", "raised"}
    /\ \E m \in Models, d \in Datasets, me \in Metrics, c \in BOOLEAN :
        /\ model_or_pipeline' = m
        /\ data' = d
        /\ metric' = me
        /\ cache_if_possible' = c
    /\ result' = {}
    /\ canary_hash' = ""
    /\ cache_file_name' = <<>>
    /\ perf_results' = {}
    /\ c_ret' = <<>>
    /\ c_exc' = <<>>
    /\ pipe_log' = <<>>
    /\ aligner_runs' = 0
    /\ metric_runs' = 0
    /\ c_pc' = "line264"
    /\ UNCHANGED <<cache_dir, offsetVars, alignVars>>

\* lines 264-265, 207-217: prepare_pipeline invokes the pipeline on a dummy
\* input and raises when it reports no start offset
PreparePipeline ==
    /\ c_pc = "line264"
    /\ pipe_log' = Append(pipe_log, "dummy")
    /\ IF model_or_pipeline = "slow-tokenizer"
       THEN /\ c_exc' = <<[type |-> "ValueError", line |-> 212]>>
            /\ c_pc' = "raised"
       ELSE /\ c_pc' = "line267"
            /\ UNCHANGED c_exc
    /\ UNCHANGED <<model_or_pipeline, data, metric, cache_if_possible, canary_hash,
                   cache_file_name, perf_results, result, c_ret, cache_dir,
                   aligner_runs, metric_runs, offsetVars, alignVars>>

\* lines 267-274, 219-225: with caching, compute_canary_hash invokes the
\* pipeline on the canary inputs and the cache file name is built
ComputeCanaryHash ==
    /\ c_pc = "line267"
    /\ cache_if_possible
    /\ pipe_log' = Append(pipe_log, "canary")
    /\ canary_hash' = CanaryHash(model_or_pipeline)
    /\ cache_file_name' = CacheFileName(CanaryHash(model_or_pipeline), data, metric)
    /\ c_pc' = "line277"
    /\ UNCHANGED <<model_or_pipeline, data, metric, cache_if_possible, perf_results,
                   result, c_ret, c_exc, cache_dir, aligner_runs, metric_runs,
                   offsetVars, alignVars>>

\* line 267: without caching the cache is not looked at
NoCaching ==
    /\ c_pc = "line267"
    /\ ~cache_if_possible
    /\ c_pc' = "line284"
    /\ UNCHANGED <<model_or_pipeline, data, metric, cache_if_possible, canary_hash,
                   cache_file_name, perf_results, result, c_ret, c_exc, cache_dir,
                   pipe_log, aligner_runs, metric_runs, offsetVars, alignVars>>

\* lines 277-281: the cache file exists, its result is read and returned
LoadCached ==
    /\ c_pc = "line277"
    /\ cache_file_name \in DOMAIN cache_dir
    /\ result' = ReadTable(cache_dir[cache_file_name])
    /\ c_ret' = <<[line |-> 281, value |-> result']>>
    /\ c_pc' = "returned"
    /\ UNCHANGED <<model_or_pipeline, data, metric, cache_if_possible, canary_hash,
                   cache_file_name, perf_results, c_exc, cache_dir, pipe_log,
                   aligner_runs, metric_runs, offsetVars, alignVars>>

\* line 277: the cache file does not exist
CacheMiss ==
    /\ c_pc = "line277"
    /\ cache_file_name \notin DOMAIN cache_dir
    /\ c_pc' = "line284"
    /\ UNCHANGED <<model_or_pipeline, data, metric, cache_if_possible, canary_hash,
                   cache_file_name, perf_results, result, c_ret, c_exc, cache_dir,
                   pipe_log, aligner_runs, metric_runs, offsetVars, alignVars>>

\* line 284: the pipeline is invoked on the inputs of the dataset
CallPipeline ==
    /\ c_pc = "line284"
    /\ pipe_log' = Append(pipe_log, "data")
    /\ \E t \in Times : perf_results' = PerfResults(t)
    /\ c_pc' = "line285"
    /\ UNCHANGED <<model_or_pipeline, data, metric, cache_if_possible, canary_hash,
                   cache_file_name, result, c_ret, c_exc, cache_dir, aligner_runs,
                   metric_runs, offsetVars, alignVars>>

\* lines 285-286: predictions_processor returns the aligned labels
ProcessPredictions ==
    /\ c_pc = "line285"
    /\ aligner_runs' = aligner_runs + 1
    /\ c_pc' = "line289"
    /\ UNCHANGED <<model_or_pipeline, data, metric, cache_if_possible, canary_hash,
                   cache_file_name, perf_results, result, c_ret, c_exc, cache_dir,
                   pipe_log, metric_runs, offsetVars, alignVars>>

\* line 285: predictions_processor raises (lines 130, 135) and compute with it
ProcessPredictionsRaises ==
    /\ c_pc = "line285"
    /\ aligner_runs' = aligner_runs + 1
    /\ c_exc' = <<[type |-> "IndexError", line |-> 285]>>
    /\ c_pc' = "raised"
    /\ UNCHANGED <<model_or_pipeline, data, metric, cache_if_possible, canary_hash,
                   cache_file_name, perf_results, result, c_ret, cache_dir, pipe_log,
                   metric_runs, offsetVars, alignVars>>

\* lines 289-299: the metric is computed, result takes its results and the
\* performance counters
ComputeMetric ==
    /\ c_pc = "line289"
    /\ metric_runs' = metric_runs + 1
    /\ result' = result \cup MetricResults(model_or_pipeline, data, metric)
                        \cup perf_results
    /\ c_pc' = "line303"
    /\ UNCHANGED <<model_or_pipeline, data, metric, cache_if_possible, canary_hash,
                   cache_file_name, perf_results, c_ret, c_exc, cache_dir, pipe_log,
                   aligner_runs, offsetVars, alignVars>>

\* lines 303-306: with caching the result is written to the cache file; the
\* result is returned
WriteAndReturn ==
    /\ c_pc = "line303"
    /\ IF cache_if_possible /\ canary_hash # ""
       THEN cache_dir' = StoreFile(cache_dir, cache_file_name, WriteTable(result))
       ELSE UNCHANGED cache_dir
    /\ c_ret' = <<[line |-> 306, value |-> result]>>
    /\ c_pc' = "returned"
    /\ UNCHANGED <<model_or_pipeline, data, metric, cache_if_possible, canary_hash,
                   cache_file_name, perf_results, result, c_exc, pipe_log,
                   aligner_runs, metric_runs, offsetVars, alignVars>>

NextCompute ==
    \/ ComputeCall
    \/ PreparePipeline
    \/ ComputeCanaryHash
    \/ NoCaching
    \/ LoadCached
    \/ CacheMiss
    \/ CallPipeline
    \/ ProcessPredictions
    \/ ProcessPredictionsRaises
    \/ ComputeMetric
    \/ WriteAndReturn

SpecCompute == InitCompute /\ [][NextCompute]_vars

\* ------------------------------------------------------------ properties
SortedByStart(p) ==
    \A a, b \in 1..Len(p) : a < b => p[a].start <= p[b].start

\* some sub-token of p starts exactly at the word's start offset
HasExact(p, off) == \E j \in 1..Len(p) : p[j].start = off[1]

\* the lowest index of a sub-token of p starting exactly at the word's start offset
FirstExact(p, off) ==
    CHOOSE j \in 1..Len(p) :
        /\ p[j].start = off[1]
        /\ \A l \in 1..(j - 1) : p[l].start # off[1]

\* the word starts after the start of every sub-token of p
Starved(p, off) == \A j \in 1..Len(p) : p[j].start < off[1]

\* prediction, words_offsets and pred_processed belong to example i of words
Current == i >= 0 /\ i < Len(words)

\* example i has been left: completed (line 143 done) or by an exception of line 135
ExampleCompleted == Current /\ pc \in {"line126", "returned"}
RaisedAt135 == pc = "raised" /\ exc[1].line = 135

\* the characters of str at the 0-based positions s..e
Slice(str, s, e) == [c \in 1..(e - s + 1) |-> str[s + c]]
Positions(off) == off[1]..off[2]

\* C1: when predictions_processor returns, every returned label list has exactly
\* as many labels as its example has words, whatever the number of sub-token
\* predictions; a call that raised has returned nothing.
C1_OutputLength ==
    /\ pc = "returned" =>
        \A j \in 1..Len(retval[1].predictions) :
            /\ j <= Len(words)
            /\ Len(retval[1].predictions[j]) = Len(words[j])
    /\ pc = "raised" => retval = <<>>

\* a call returned labels for an example with two words and a different number
\* of sub-token predictions
C1_Witness ==
    /\ pc = "returned"
    /\ Current
    /\ Len(words[i + 1]) = 2
    /\ Len(prediction) = 1
    /\ Len(retval[1].predictions[i + 1]) = 2

\* C2: words_to_offsets returns one (start, end) pair per word, the first start
\* is 0, start_{k+1} = end_k + len(join_by) + 1, starts are non-decreasing, and
\* the characters start_k..end_k of join_by.join(words) are exactly words[k].
C2_OffsetsMatchJoin ==
    w_pc = "returned" =>
        LET joined == Join(w_words, w_join_by)
            n == Len(w_words)
        IN /\ Len(w_offsets) = n
           /\ n >= 1 => w_offsets[1][1] = 0
           /\ \A m \in 1..(n - 1) :
                /\ w_offsets[m + 1][1] = w_offsets[m][2] + Len(w_join_by) + 1
                /\ w_offsets[m + 1][1] >= w_offsets[m][1]
           /\ \A m \in 1..n :
                /\ w_offsets[m][2] = w_offsets[m][1] + Len(w_words[m]) - 1
                /\ w_offsets[m][1] >= 0
                /\ w_offsets[m][2] < Len(joined)
                /\ Slice(joined, w_offsets[m][1], w_offsets[m][2]) = w_words[m]

\* offsets of a longest word list holding a zero-length and a longest word, joined by a
\* non-empty separator
C2_Witness ==
    /\ w_pc = "returned"
    /\ Len(w_words) = MaxWords
    /\ \E m \in 1..Len(w_words) : w_words[m] = <<>>
    /\ \E m \in 1..Len(w_words) : Len(w_words[m]) = MaxWordLen
    /\ Len(w_join_by) >= 1

C4_Claim ==
    RaisedAt135 =>
        /\ exc[1].type = "AlignmentError"
        /\ exc[1].identifies = {i}

\* C5: predictions_processor never returns labels for an example whose
\* predictions are not sorted by start; in particular it never returns a result
\* in which a word that has a sub-token starting exactly at its start offset is
\* labelled otherwise than with the entity of such a sub-token (stated here: the
\* case the claim singles out).
C5_Claim ==
    (pc = "returned" /\ Current) =>
        /\ \A m \in 1..Len(pred_processed) :
              HasExact(prediction, words_offsets[m]) =>
                  \E j \in 1..Len(prediction) :
                      /\ prediction[j].start = words_offsets[m][1]
                      /\ prediction[j].entity = pred_processed[m]

\* C7 (as amended): the spans of words_to_offsets are pairwise non-overlapping,
\* their starts never decrease, and start_{k+1} > start_k whenever word k or the
\* separator is non-empty.
C7_SpansDisjoint ==
    w_pc = "returned" =>
        /\ \A a, b \in 1..Len(w_offsets) :
              a < b => Positions(w_offsets[a]) \cap Positions(w_offsets[b]) = {}
        /\ \A m \in 1..(Len(w_offsets) - 1) :
              /\ w_offsets[m + 1][1] >= w_offsets[m][1]
              /\ (Len(w_words[m]) + Len(w_join_by) > 0)
                    => w_offsets[m + 1][1] > w_offsets[m][1]

\* a zero-length word followed by another word, joined by the empty separator
C7_Witness ==
    /\ w_pc = "returned"
    /\ Len(w_offsets) >= 2
    /\ w_words[1] = <<>>
    /\ w_join_by = <<>>
    /\ w_offsets[2][1] = w_offsets[1][1]

\* C7 (as stated): the starts are strictly increasing, zero-length words and an
\* empty separator included.
C7_Claim ==
    w_pc = "returned" =>
        /\ \A a, b \in 1..Len(w_offsets) :
              a < b => Positions(w_offsets[a]) \cap Positions(w_offsets[b]) = {}
        /\ \A m \in 1..(Len(w_offsets) - 1) : w_offsets[m + 1][1] > w_offsets[m][1]

\* C8: in an example whose predictions are sorted by start, every labelled word
\* for which some sub-token starts exactly at the word's start offset has the
\* entity of the lowest-index such sub-token.
C8_ExactMatch ==
    (Current /\ SortedByStart(prediction)) =>
        \A m \in 1..Len(pred_processed) :
            HasExact(prediction, words_offsets[m]) =>
                pred_processed[m] =
                    prediction[FirstExact(prediction, words_offsets[m])].entity

\* returned labels where two sub-tokens of different entities start at the
\* start offset of a word, which has the entity of the first
C8_Witness ==
    /\ pc = "returned"
    /\ Current
    /\ SortedByStart(prediction)
    /\ \E m \in 1..Len(pred_processed) :
        \E a, b \in 1..Len(prediction) :
            /\ a < b
            /\ prediction[a].start = words_offsets[m][1]
            /\ prediction[b].start = words_offsets[m][1]
            /\ prediction[a].entity # prediction[b].entity
            /\ pred_processed[m] = prediction[a].entity

C9_Step ==
    /\ (i' # i /\ pc' = "line133") => token_index' = 0
    /\ i' = i => token_index' >= token_index
    /\ (i' = i /\ token_index' # token_index) =>
          /\ pc = "line135"
          /\ InRange
          /\ StartsBefore(prediction[token_index + 1], word_offset)
          /\ token_index' = token_index + 1

\* C9: token_index is 0 when the word loop of an example starts, within an
\* example it never decreases, and it changes only by the skip loop adding 1
\* while the current sub-token starts before the current word.
C9_CursorDiscipline ==
    /\ [](pc = "line133" /\ k = 0 => token_index = 0)
    /\ [][C9_Step]_vars

\* the second example is being processed with its cursor advanced, after a
\* first example was completed
C9_Witness ==
    /\ i = 1
    /\ Len(preds) = 1
    /\ pc = "line138"
    /\ k = 2
    /\ token_index >= 1

\* C10: for predictions sorted by start, an example ends with the index error of
\* line 135 exactly when some word of it starts after the start of every
\* sub-token; an example without words never reads its predictions; and a call
\* that raised returns nothing.
C10_OverrunExactly ==
    /\ (RaisedAt135 /\ SortedByStart(prediction)) =>
          \E m \in 1..Len(words_offsets) : Starved(prediction, words_offsets[m])
    /\ (ExampleCompleted /\ SortedByStart(prediction)) =>
          /\ Len(pred_processed) = Len(words_offsets)
          /\ \A m \in 1..Len(words_offsets) : ~Starved(prediction, words_offsets[m])
    /\ pc \in {"line135", "line138"} => (k >= 1 /\ Len(words_offsets) >= 1)
    /\ pc = "raised" => (retval = <<>> /\ ~ENABLED NextAlign)

\* the second example raised at its last word, after labels for the first
\* example and for a word of the second had been collected
C10_Witness ==
    /\ RaisedAt135
    /\ i = 1
    /\ Len(preds) = 1
    /\ Len(preds[1]) >= 1
    /\ SortedByStart(prediction)
    /\ Len(prediction) >= 1
    /\ Len(pred_processed) >= 1

ReturnedFromCache == c_pc = "returned" /\ c_ret[1].line = 281
ReturnedComputed == c_pc = "returned" /\ c_ret[1].line = 306
Invoked(kind) == \E n \in 1..Len(pipe_log) : pipe_log[n] = kind

C6_Step ==
    /\ (c_pc = "line277" /\ cache_file_name \in DOMAIN cache_dir) =>
          /\ c_pc' = "returned"
          /\ c_ret'[1].line = 281
    /\ \A n \in DOMAIN cache_dir :
          /\ n \in DOMAIN cache_dir'
          /\ cache_dir'[n] = cache_dir[n]

\* C6 (as amended): a compute with caching returns the result it computed and
\* stores exactly that result; a stored result is never changed; a later compute
\* with caching whose cache file exists returns the stored result, read from the
\* file (the result of a model with the same canary predictions on the same data
\* and metric), and between its start and its return the pipeline is invoked on
\* the dummy input of prepare_pipeline and on the canary inputs only, never on
\* the dataset, and neither the aligner nor the metric is run.
C6_CacheIdempotence ==
    /\ [](ReturnedComputed /\ cache_if_possible =>
            /\ cache_file_name \in DOMAIN cache_dir
            /\ ReadTable(cache_dir[cache_file_name]) = c_ret[1].value)
    /\ [](ReturnedFromCache =>
            /\ c_ret[1].value = ReadTable(cache_dir[cache_file_name])
            /\ \E m \in Models, t \in Times :
                  /\ CanaryHash(m) = CanaryHash(model_or_pipeline)
                  /\ c_ret[1].value = MetricResults(m, data, metric) \cup PerfResults(t)
            /\ pipe_log = <<"dummy", "canary">>
            /\ ~Invoked("data")
            /\ aligner_runs = 0
            /\ metric_runs = 0)
    /\ [][C6_Step]_vars

\* a compute with caching returned a result read from the cache file
C6_Witness ==
    /\ ReturnedFromCache
    /\ cache_if_possible
    /\ c_ret[1].value =
          MetricResults(model_or_pipeline, data, metric) \cup PerfResults("t2")

\* C6 (as stated): the second compute returns the stored result without the
\* pipeline being invoked at all and without the aligner and the metric run.
C6_Claim ==
    ReturnedFromCache =>
        /\ c_ret[1].value = ReadTable(cache_dir[cache_file_name])
        /\ pipe_log = <<>>
        /\ aligner_runs = 0
        /\ metric_runs = 0

====
